---- MODULE Spec2Model ----
(***************************************************************************)
(* Valuation engine of metal-tracker.                                      *)
(*                                                                         *)
(* Part 1: the module-level price cache of price_service.py                *)
(*         (fetch_live_prices, get_fallback_prices), called by several     *)
(*         coroutines of one asyncio event loop.                           *)
(* Part 2: the spread cascade of scheduler_snapshots.py                    *)
(*         (get_effective_spread) and schemas.py (get_default_spread).     *)
(*                                                                         *)
(* Part 3: the valuation functions of price_service.py                     *)
(*         (calculate_current_value, calculate_position_values).           *)
(* Part 4: the portfolio of main.py (position requests, summary, history,  *)
(*         update_daily_snapshot) and the snapshot job of                  *)
(*         scheduler_snapshots.py over the tables of models.py.            *)
(* Part 5: the snapshot upsert statement by statement, run by the web      *)
(*         application and by the scheduler's process at once.             *)
(* Part 6: the daily job of snapshot_job.py, the history endpoint over     *)
(*         several days, the weight fields under update_position, the      *)
(*         history backfill of spec.md section 4.6, the reads by owner     *)
(*         and the position limit of create_position under interleaving.   *)
(*                                                                         *)
(* Units: time in minutes; per-ounce quotes, per-gram prices and amounts   *)
(* of money in cents; weights in tenths of a gram; spread percentages in   *)
(* tenths of a percent (5.0 % is 50); profit/loss percentages in           *)
(* hundredths of a percent.                                                *)
(***************************************************************************)
EXTENDS Integers, Sequences, FiniteSets, TLC

\* ------------------------------------------------------------------ bounds
MaxTime == 5
MaxFetches == 3
\* requests and job runs in one behaviour of the portfolio
MaxOps == 3
\* days that pass
MaxDay == 1
\* days that pass while the history is asked for
MaxHistoryDay == 8

\* --------------------------------------------------------------- constants
CACHE_DURATION_MINUTES == 5
\* GRAMS_PER_OZ = 31.1035, as the rational GRAMS_PER_OZ_E4 / 10000
GRAMS_PER_OZ_E4 == 311035
\* _cache_timestamp = None
NONE == -1
\* a JSON value that is not a number (string, null, object)
NotANumber == -2

\* the coroutines that call fetch_live_prices on one event loop
Callers == {"a", "b"}

METAL_API_FIELDS ==
    [gold |-> "gold_eur", silver |-> "silber_eur",
     platinum |-> "platin_eur", palladium |-> "palladium_eur"]

Metals == DOMAIN METAL_API_FIELDS

\* the empty dict {}
EmptyDict == [k \in {} |-> 0]

\* get_fallback_prices(): EUR per gram, in cents.  epoch 0 marks the table
\* (ghost field: the code's values are bare floats).
get_fallback_prices ==
    [gold      |-> [epoch |-> 0, price |-> 11850],
     silver    |-> [epoch |-> 0, price |-> 196],
     platinum  |-> [epoch |-> 0, price |-> 5615],
     palladium |-> [epoch |-> 0, price |-> 4420]]

\* ------------------------------------------------- the provider's answers
\* JSON bodies of https://api.edelmetalle.de/public.json (quotes per ounce,
\* in cents); a body may lack fields, carry other fields, or carry a
\* non-numeric value.
FullBody ==
    [gold_eur |-> 200000, silber_eur |-> 2500, platin_eur |-> 90000,
     palladium_eur |-> 100000, kupfer_eur |-> 1]
PartialBody == [gold_eur |-> 205000, silber_eur |-> 2550]
FieldlessBody == [kupfer_eur |-> 1]
BrokenBody == [gold_eur |-> 200000, silber_eur |-> NotANumber]

Bodies == {FullBody, PartialBody, FieldlessBody, BrokenBody}

\* what `await client.get(...)`, raise_for_status() and response.json()
\* can produce: an exception (connection error, timeout after 10 s, non-2xx
\* status), or a parsed body (BrokenBody stands for the malformed ones)
Failures == {"network", "timeout", "status"}
Outcomes ==
    [why : Failures, data : {EmptyDict}] \cup [why : {"ok"}, data : Bodies]
NoOutcome == [why |-> "none", data |-> EmptyDict]

\* price_per_oz / GRAMS_PER_OZ
PricePerGram(price_per_oz) == (price_per_oz * 10000) \div GRAMS_PER_OZ_E4

\* the loop of lines 45-51 over METAL_API_FIELDS; fetchId tags the entries
\* with the fetch they come from
PresentMetals(data) == {m \in Metals : METAL_API_FIELDS[m] \in DOMAIN data}
BuildPrices(data, fetchId) ==
    [m \in PresentMetals(data) |->
        [epoch |-> fetchId, price |-> PricePerGram(data[METAL_API_FIELDS[m]])]]

\* the division of line 49 raises TypeError on a non-numeric value
Raises(outcome) ==
    \/ outcome.why \in Failures
    \/ \E m \in PresentMetals(outcome.data) :
          outcome.data[METAL_API_FIELDS[m]] = NotANumber

VARIABLES
    now,              \* datetime.now(), minutes
    price_cache,      \* _price_cache
    cache_timestamp,  \* _cache_timestamp
    pc,               \* per caller: "idle", "fetching" (at the await), "done"
    result,           \* per caller: the dict fetch_live_prices returned
    path,             \* per caller: the return statement taken
    fetchId,          \* per caller: number of the fetch it issued, 0 if none
    callAt,           \* per caller: time of the call
    got,              \* per caller: the outcome of its fetch
    priorSuccess,     \* per caller: had a fetch succeeded before its outcome
    fetches,          \* number of requests sent to the provider
    succeeded,        \* has any fetch succeeded so far
    tsAt,             \* per caller: _cache_timestamp when it returned
    after,            \* per caller: the callers that had returned and still
                      \* held their dict when it called
    position,         \* models.Position handed to get_effective_spread
    default_spreads,  \* user_settings.default_spreads (the parsed dict)
    effective_spread, \* what get_effective_spread returned
    resolved,         \* has get_effective_spread been applied
    accepted,         \* verdict of the request schemas on the input
    valuation,        \* arguments and results of the valuation functions
    fetched_prices,   \* the dict fetch_live_prices returns to the valuation
    positions,        \* rows of table positions
    snapshots,        \* rows of table portfolio_snapshots
    user_settings,    \* per user: the row of table user_settings, if any
    today,            \* date.today(), a day number
    response,         \* what the last request or job run answered
    ops,              \* number of requests and job runs so far
    next_id,          \* next primary key of table positions
    writer,           \* per snapshot writer: where it is in its upsert
    creating,         \* per request: where it is in create_position
    backfill          \* the backfill run: its walk and its open transaction

vars == <<now, price_cache, cache_timestamp, pc, result, path, fetchId,
          callAt, got, priorSuccess, fetches, succeeded, tsAt, after,
          position, default_spreads, effective_spread, resolved,
          accepted, valuation, fetched_prices, positions, snapshots,
          user_settings, today, response, ops, next_id, writer, creating,
          backfill>>

cacheVars == <<now, price_cache, cache_timestamp, pc, result, path, fetchId,
               callAt, got, priorSuccess, fetches, succeeded, tsAt, after>>
spreadVars == <<position, default_spreads, effective_spread, resolved>>
dbVars == <<positions, snapshots, user_settings, today, response, ops,
            next_id>>
runVars == <<creating, backfill>>
restVars == <<accepted, valuation, fetched_prices, dbVars, writer, runVars>>

InitCache ==
    /\ now = 0
    /\ price_cache = EmptyDict
    /\ cache_timestamp = NONE
    /\ pc = [c \in Callers |-> "idle"]
    /\ result = [c \in Callers |-> EmptyDict]
    /\ path = [c \in Callers |-> "none"]
    /\ fetchId = [c \in Callers |-> 0]
    /\ callAt = [c \in Callers |-> 0]
    /\ got = [c \in Callers |-> NoOutcome]
    /\ priorSuccess = [c \in Callers |-> FALSE]
    /\ fetches = 0
    /\ succeeded = FALSE
    /\ tsAt = [c \in Callers |-> NONE]
    /\ after = [c \in Callers |-> {}]

\* the state outside the part a specification exercises
NoValuation ==
    [metal_type |-> "gold", weight_grams |-> 0, spread_percent |-> 0,
     done |-> FALSE,
     values |-> [spot_value_eur |-> 0, buyback_value_eur |-> 0,
                 spread_percent |-> 0, spread_eur |-> 0],
     current_value |-> 0]

\* registered users (users.id)
Users == {1, 2}

\* no row in user_settings / a row, with what its default_spreads property
\* reads
NoSettings == [exists |-> FALSE, default_spreads |-> EmptyDict]

NoResponse == [op |-> "none", user_id |-> 0, status |-> 0, body |-> EmptyDict]

\* empty tables, nothing requested yet
InitDb ==
    /\ positions = {}
    /\ snapshots = {}
    /\ user_settings = [u \in Users |-> NoSettings]
    /\ today = 0
    /\ response = NoResponse
    /\ ops = 0
    /\ next_id = 1

\* the two processes that write snapshots: the web application serving a
\* request, and scheduler_snapshots.py started by the scheduler
Writers == {"request", "job"}

NoTotals ==
    [total_purchase_value_eur |-> 0, total_current_value_eur |-> 0,
     total_weight_gold_g |-> 0, total_weight_silver_g |-> 0,
     total_weight_platinum_g |-> 0, total_weight_palladium_g |-> 0,
     positions_count |-> 0]

\* not inside update_daily_snapshot / create_snapshot_for_user
IdleWriter == [pc |-> "idle", user_id |-> 0, totals |-> NoTotals,
               found |-> NONE]

\* not inside create_position
IdleCreate == [pc |-> "idle", user_id |-> 0, position_id |-> 0,
               totals |-> NoTotals]

\* no backfill under way, none done
IdleBackfill ==
    [pc |-> "idle", user_id |-> 0, position_id |-> 0, d |-> 0, seed |-> 0,
     written |-> {}, before |-> {}, backfilled |-> {}]

InitRun ==
    /\ creating = [c \in Callers |-> IdleCreate]
    /\ backfill = IdleBackfill

InitRest ==
    /\ accepted = "pending"
    /\ valuation = NoValuation
    /\ fetched_prices = EmptyDict
    /\ InitDb
    /\ writer = [w \in Writers |-> IdleWriter]
    /\ InitRun

NoPosition ==
    [metal_type |-> "gold", spread_category |-> "bar_large",
     spread_percent |-> NONE, discount_percent |-> NONE]

\* no call of get_effective_spread under way
InitSpread ==
    /\ position = NoPosition
    /\ default_spreads = EmptyDict
    /\ effective_spread = NONE
    /\ resolved = FALSE

Init ==
    /\ InitCache
    /\ InitSpread
    /\ InitRest

\* a plausible slip: timedelta(seconds=CACHE_DURATION_MINUTES)
CacheValidSeconds(ts, t) ==
    ts # NONE /\ (t - ts) * 60 < CACHE_DURATION_MINUTES

\* line 32: _cache_timestamp and now - _cache_timestamp < timedelta(minutes=5)
CacheValid(ts, t) == ts # NONE /\ t - ts < CACHE_DURATION_MINUTES

\* a plausible slip: line 54 forgotten, the timestamp is not renewed
OnSuccessKeepsTimestamp(prices, t, oldCache, oldTs) ==
    [cache |-> prices, ts |-> oldTs, ret |-> prices, path |-> "live"]

\* a plausible slip: _price_cache[metal] = ... in place of a new dict
OnSuccessMerges(prices, t, oldCache, oldTs) ==
    LET merged == [m \in DOMAIN oldCache \cup DOMAIN prices |->
                      IF m \in DOMAIN prices THEN prices[m] ELSE oldCache[m]]
    IN [cache |-> merged, ts |-> t, ret |-> merged, path |-> "live"]

\* lines 53-55
OnSuccess(prices, t, oldCache, oldTs) ==
    [cache |-> prices, ts |-> t, ret |-> prices, path |-> "live"]

\* a plausible slip: the fallback table is written into the cache
OnFailureCachesFallback(why, oldCache, oldTs) ==
    IF oldCache # EmptyDict
    THEN [cache |-> oldCache, ts |-> oldTs, ret |-> oldCache, path |-> "stale"]
    ELSE [cache |-> get_fallback_prices, ts |-> oldTs,
          ret |-> get_fallback_prices, path |-> "fallback"]

\* a plausible slip: `except httpx.HTTPError`, which lets the exception of
\* a timeout wrapped by another layer escape to the caller
OnFailureTimeoutEscapes(why, oldCache, oldTs) ==
    IF why = "timeout"
    THEN [cache |-> oldCache, ts |-> oldTs, ret |-> EmptyDict,
          path |-> "raised"]
    ELSE IF oldCache # EmptyDict
    THEN [cache |-> oldCache, ts |-> oldTs, ret |-> oldCache, path |-> "stale"]
    ELSE [cache |-> oldCache, ts |-> oldTs, ret |-> get_fallback_prices,
          path |-> "fallback"]

\* lines 57-62: except Exception
OnFailure(why, oldCache, oldTs) ==
    IF oldCache # EmptyDict
    THEN [cache |-> oldCache, ts |-> oldTs, ret |-> oldCache, path |-> "stale"]
    ELSE [cache |-> oldCache, ts |-> oldTs, ret |-> get_fallback_prices,
          path |-> "fallback"]

\* fetch_live_prices up to its await: cache check, then the request
Call(c) ==
    /\ pc[c] = "idle"
    /\ callAt' = [callAt EXCEPT ![c] = now]
    /\ after' = [after EXCEPT ![c] = {d \in Callers : pc[d] = "done"}]
    /\ IF CacheValid(cache_timestamp, now)
       THEN /\ pc' = [pc EXCEPT ![c] = "done"]
            /\ result' = [result EXCEPT ![c] = price_cache]
            /\ path' = [path EXCEPT ![c] = "hit"]
            /\ tsAt' = [tsAt EXCEPT ![c] = cache_timestamp]
            /\ UNCHANGED <<fetches, fetchId>>
       ELSE /\ fetches < MaxFetches
            /\ pc' = [pc EXCEPT ![c] = "fetching"]
            /\ fetches' = fetches + 1
            /\ fetchId' = [fetchId EXCEPT ![c] = fetches + 1]
            /\ UNCHANGED <<result, path, tsAt>>
    /\ UNCHANGED <<now, price_cache, cache_timestamp, got, priorSuccess,
                   succeeded, spreadVars, restVars>>

\* fetch_live_prices from the resumption of its await to its return
Respond(c, outcome) ==
    /\ pc[c] = "fetching"
    /\ LET r == IF Raises(outcome)
                THEN OnFailure(outcome.why, price_cache, cache_timestamp)
                ELSE OnSuccess(BuildPrices(outcome.data, fetchId[c]), now,
                               price_cache, cache_timestamp)
       IN /\ price_cache' = r.cache
          /\ cache_timestamp' = r.ts
          /\ result' = [result EXCEPT ![c] = r.ret]
          /\ path' = [path EXCEPT ![c] = r.path]
          /\ tsAt' = [tsAt EXCEPT ![c] = r.ts]
    /\ pc' = [pc EXCEPT ![c] = "done"]
    /\ got' = [got EXCEPT ![c] = outcome]
    /\ priorSuccess' = [priorSuccess EXCEPT ![c] = succeeded]
    /\ succeeded' = (succeeded \/ ~Raises(outcome))
    /\ UNCHANGED <<now, fetchId, callAt, fetches, after, spreadVars, restVars>>

\* the caller has consumed the dict; it may call again
Return(c) ==
    /\ pc[c] = "done"
    /\ tsAt' = [tsAt EXCEPT ![c] = NONE]
    /\ after' = [d \in Callers |-> IF d = c THEN {} ELSE after[d] \ {c}]
    /\ pc' = [pc EXCEPT ![c] = "idle"]
    /\ result' = [result EXCEPT ![c] = EmptyDict]
    /\ path' = [path EXCEPT ![c] = "none"]
    /\ fetchId' = [fetchId EXCEPT ![c] = 0]
    /\ callAt' = [callAt EXCEPT ![c] = 0]
    /\ got' = [got EXCEPT ![c] = NoOutcome]
    /\ priorSuccess' = [priorSuccess EXCEPT ![c] = FALSE]
    /\ UNCHANGED <<now, price_cache, cache_timestamp, fetches, succeeded,
                   spreadVars, restVars>>

Tick ==
    /\ now < MaxTime
    /\ now' = now + 1
    /\ UNCHANGED <<price_cache, cache_timestamp, pc, result, path, fetchId,
                   callAt, got, priorSuccess, fetches, succeeded, tsAt,
                   after, spreadVars, restVars>>

Next ==
    \/ \E c \in Callers : Call(c)
    \/ \E c \in Callers : \E outcome \in Outcomes : Respond(c, outcome)
    \/ \E c \in Callers : Return(c)
    \/ Tick

Spec == Init /\ [][Next]_vars

\* calls that do not overlap: a call starts only when no fetch is in flight
SeqCall(c) ==
    /\ \A d \in Callers : pc[d] # "fetching"
    /\ Call(c)

NextSeq ==
    \/ \E c \in Callers : SeqCall(c)
    \/ \E c \in Callers : \E outcome \in Outcomes : Respond(c, outcome)
    \/ \E c \in Callers : Return(c)
    \/ Tick

SpecSeq == Init /\ [][NextSeq]_vars

\* the request of line 37 carries timeout=10.0: every fetch in flight ends,
\* with a response or with an exception
FairSpec ==
    Spec /\ \A c \in Callers : WF_vars(\E outcome \in Outcomes : Respond(c, outcome))

\* ======================================================= the spread cascade
REFERENCE_SPREADS ==
    [gold |->
        [coin_bullion |-> 30, coin_numismatic |-> 80, bar_large |-> 20,
         bar_small |-> 40, bar_minted |-> 35, round |-> 50,
         granulate |-> 20, jewelry |-> 150],
     silver |->
        [coin_bullion |-> 150, coin_numismatic |-> 200, bar_large |-> 120,
         bar_small |-> 180, bar_minted |-> 150, round |-> 180,
         granulate |-> 120, jewelry |-> 300],
     platinum |->
        [coin_bullion |-> 50, coin_numismatic |-> 100, bar_large |-> 40,
         bar_small |-> 60, bar_minted |-> 50, round |-> 80,
         granulate |-> 40, jewelry |-> 200],
     palladium |->
        [coin_bullion |-> 60, coin_numismatic |-> 120, bar_large |-> 50,
         bar_small |-> 70, bar_minted |-> 60, round |-> 100,
         granulate |-> 50, jewelry |-> 250]]

\* dict.get(key, default)
DictGet(d, key, default) == IF key \in DOMAIN d THEN d[key] ELSE default

\* str.lower() on the metal names that occur
Lower(s) ==
    CASE s = "Gold" -> "gold"
      [] s = "SILVER" -> "silver"
      [] OTHER -> s

\* a plausible slip: the per-metal fallback of get_default_spreads_for_metal
get_default_spread_gold_fallback(metal_type, spread_category) ==
    DictGet(DictGet(REFERENCE_SPREADS, Lower(metal_type),
                    REFERENCE_SPREADS["gold"]),
            spread_category, 50)

get_default_spread(metal_type, spread_category) ==
    DictGet(DictGet(REFERENCE_SPREADS, Lower(metal_type), EmptyDict),
            spread_category, 50)

\* a NULL or empty spread_category column (falsy in `or`)
NoCategory == ""

\* a plausible slip: truthiness tests instead of `is not None`
get_effective_spread_truthy(p, defaults) ==
    IF p.spread_percent # NONE /\ p.spread_percent # 0
    THEN p.spread_percent
    ELSE IF p.discount_percent # NONE /\ p.discount_percent # 0
    THEN p.discount_percent
    ELSE LET category == IF p.spread_category = NoCategory
                         THEN "bar_large" ELSE p.spread_category
         IN IF defaults # EmptyDict /\ category \in DOMAIN defaults
            THEN defaults[category]
            ELSE get_default_spread(Lower(p.metal_type), category)

get_effective_spread(p, defaults) ==
    IF p.spread_percent # NONE
    THEN p.spread_percent
    ELSE IF p.discount_percent # NONE
    THEN p.discount_percent
    ELSE LET category == IF p.spread_category = NoCategory
                         THEN "bar_large" ELSE p.spread_category
         IN IF defaults # EmptyDict /\ category \in DOMAIN defaults
            THEN defaults[category]
            ELSE get_default_spread(Lower(p.metal_type), category)

\* inputs of the cascade
MetalInputs == {"gold", "silver", "Gold", "copper"}
CategoryInputs == {NoCategory, "bar_large", "coin_bullion", "jewelry", "ingot"}
SpreadInputs == {NONE, 0, 70, 1000}
DiscountInputs == {NONE, 0, 30}
DefaultsInputs ==
    {EmptyDict,
     [bar_large |-> 20],
     [bar_large |-> 0, coin_bullion |-> 45],
     [jewelry |-> 170],
     [ingot |-> 90]}

InitResolve ==
    /\ InitCache
    /\ position \in [metal_type : MetalInputs, spread_category : CategoryInputs,
                     spread_percent : SpreadInputs,
                     discount_percent : DiscountInputs]
    /\ default_spreads \in DefaultsInputs
    /\ effective_spread = NONE
    /\ resolved = FALSE
    /\ InitRest

Resolve ==
    /\ ~resolved
    /\ effective_spread' = get_effective_spread(position, default_spreads)
    /\ resolved' = TRUE
    /\ UNCHANGED <<position, default_spreads, cacheVars, restVars>>

NextResolve == Resolve

SpecResolve == InitResolve /\ [][NextResolve]_vars

\* ====================================================== the request schemas
\* MetalType and SpreadCategory of schemas.py
MetalType == {"gold", "silver", "platinum", "palladium"}
SpreadCategory ==
    {"coin_bullion", "coin_numismatic", "bar_large", "bar_small",
     "bar_minted", "round", "granulate", "jewelry"}

\* Optional[float] = Field(None, ge=0, le=100)
PercentField(v) == v = NONE \/ (0 <= v /\ v <= 1000)

\* PositionCreate / PositionUpdate on the fields the cascade reads
PositionAccepted(p) ==
    /\ p.metal_type \in MetalType
    /\ p.spread_category \in SpreadCategory
    /\ PercentField(p.spread_percent)
    /\ PercentField(p.discount_percent)

\* UserSettingsUpdate.default_spreads: Optional[dict[str, float]], any
\* number passes, a value that is no number does not
UserSettingsAccepted(d) == \A k \in DOMAIN d : d[k] # NotANumber

\* request bodies, in and out of the documented 0-100 % range
RawSpreadInputs == SpreadInputs \cup {1001, -50}
RawDiscountInputs == DiscountInputs \cup {1200}
RawDefaultsInputs ==
    DefaultsInputs \cup
        {[bar_large |-> 1500], [jewelry |-> -50], [bar_large |-> NotANumber]}

InitAccept ==
    /\ InitCache
    /\ position \in [metal_type : MetalInputs,
                     spread_category : CategoryInputs,
                     spread_percent : RawSpreadInputs,
                     discount_percent : RawDiscountInputs]
    /\ default_spreads \in RawDefaultsInputs
    /\ effective_spread = NONE
    /\ resolved = FALSE
    /\ InitRest

\* pydantic validation of the two request bodies
Validate ==
    /\ accepted = "pending"
    /\ accepted' = IF /\ PositionAccepted(position)
                      /\ UserSettingsAccepted(default_spreads)
                   THEN "accepted" ELSE "rejected"
    /\ UNCHANGED <<cacheVars, spreadVars, runVars,
                   valuation, fetched_prices, dbVars,
                   writer>>

\* the stored values reach the cascade
ResolveAccepted == accepted = "accepted" /\ Resolve

NextAccept == Validate \/ ResolveAccepted

SpecAccept == InitAccept /\ [][NextAccept]_vars

\* ==================================================== the valuation functions
\* round(n / d, ...) to the nearest unit, ties to even (d > 0)
Round(n, d) ==
    LET q == n \div d
        r == n % d
    IN IF 2 * r < d THEN q
       ELSE IF 2 * r > d THEN q + 1
       ELSE IF q % 2 = 0 THEN q ELSE q + 1

\* prices.get(metal_type.lower(), 0.0) on the dict fetch_live_prices returns
get_price_per_gram(prices, metal_type) ==
    IF Lower(metal_type) \in DOMAIN prices
    THEN prices[Lower(metal_type)].price ELSE 0

\* price [cent/g] * weight [g/10] is in tenths of a cent; the factor
\* (1 - spread_percent / 100) is (1000 - spread) / 1000
calculate_current_value(prices, metal_type, weight_grams, spread_percent) ==
    LET spot_price_per_gram == get_price_per_gram(prices, metal_type)
    IN IF spread_percent > 0
       THEN Round(spot_price_per_gram * (1000 - spread_percent) * weight_grams,
                  10000)
       ELSE Round(spot_price_per_gram * weight_grams, 10)

\* a plausible slip: spread_eur = buyback_value - spot_value
calculate_position_values_negated(prices, metal_type, weight_grams, spread_percent) ==
    LET spot_value == get_price_per_gram(prices, metal_type) * weight_grams
    IN [spot_value_eur |-> Round(spot_value, 10),
        buyback_value_eur |->
            IF spread_percent > 0
            THEN Round(spot_value * (1000 - spread_percent), 10000)
            ELSE Round(spot_value, 10),
        spread_percent |-> spread_percent,
        spread_eur |->
            IF spread_percent > 0
            THEN Round(0 - spot_value * spread_percent, 10000)
            ELSE 0]

\* a plausible slip: the factor spread_percent / 100 without the `1 -`
calculate_position_values_share(prices, metal_type, weight_grams, spread_percent) ==
    LET spot_value == get_price_per_gram(prices, metal_type) * weight_grams
    IN [spot_value_eur |-> Round(spot_value, 10),
        buyback_value_eur |->
            IF spread_percent > 0
            THEN Round(spot_value * spread_percent, 10000)
            ELSE Round(spot_value, 10),
        spread_percent |-> spread_percent,
        spread_eur |->
            IF spread_percent > 0
            THEN Round(spot_value * (1000 - spread_percent), 10000)
            ELSE 0]

calculate_position_values(prices, metal_type, weight_grams, spread_percent) ==
    LET spot_value == get_price_per_gram(prices, metal_type) * weight_grams
    IN [spot_value_eur |-> Round(spot_value, 10),
        buyback_value_eur |->
            IF spread_percent > 0
            THEN Round(spot_value * (1000 - spread_percent), 10000)
            ELSE Round(spot_value, 10),
        spread_percent |-> spread_percent,
        spread_eur |->
            IF spread_percent > 0
            THEN Round(spot_value * spread_percent, 10000)
            ELSE 0]

\* live prices: gold at 100.00 EUR/g, silver at 0.80 EUR/g
LivePrices ==
    [gold |-> [epoch |-> 1, price |-> 10000],
     silver |-> [epoch |-> 1, price |-> 80],
     platinum |-> [epoch |-> 1, price |-> 5000],
     palladium |-> [epoch |-> 1, price |-> 4000]]
PriceInputs == {LivePrices, get_fallback_prices, EmptyDict}

\* arguments of the valuation functions
WeightInputs == {1, 33, 100}
ValuationSpreadInputs == {-50, 0, 35, 50, 1000, 1500}

InitValue ==
    /\ InitCache
    /\ InitSpread
    /\ accepted = "pending"
    /\ InitDb
    /\ writer = [w \in Writers |-> IdleWriter]
    /\ InitRun
    /\ fetched_prices \in PriceInputs
    /\ valuation \in
         [metal_type : MetalInputs, weight_grams : WeightInputs,
          spread_percent : ValuationSpreadInputs, done : {FALSE},
          values : {NoValuation.values}, current_value : {0}]

\* both functions on the same arguments and the same prices
Valuate ==
    /\ ~valuation.done
    /\ valuation' =
         [valuation EXCEPT
            !.done = TRUE,
            !.values = calculate_position_values(
                           fetched_prices, valuation.metal_type,
                           valuation.weight_grams, valuation.spread_percent),
            !.current_value = calculate_current_value(
                           fetched_prices, valuation.metal_type,
                           valuation.weight_grams, valuation.spread_percent)]
    /\ UNCHANGED <<cacheVars, spreadVars, runVars,
                   accepted, fetched_prices, dbVars,
                   writer>>

NextValue == Valuate

SpecValue == InitValue /\ [][NextValue]_vars

\* ============================================================ the portfolio
\* WEIGHT_TO_GRAMS, as rationals over 10000
WEIGHT_TO_GRAMS_E4 == [g |-> 10000, oz |-> 311035, kg |-> 10000000]

\* value * WEIGHT_TO_GRAMS.get(unit, 1.0), cut to a whole tenth of a gram
convert_to_grams(value, unit) ==
    (value * DictGet(WEIGHT_TO_GRAMS_E4, unit, 10000)) \div 10000

TIER_LIMITS == [free |-> 10, premium |-> 999999]

\* users.tier: user 1 is on the free tier, user 2 carries a tier that
\* TIER_LIMITS does not know
UserTier == [u \in Users |-> IF u = 1 THEN "free" ELSE "trial"]

\* the HTTPException of lines 162-165: its detail reads
\* TIER_LIMITS[user.tier], a KeyError for a tier that is not in the dict
LimitStatus(u) == IF UserTier[u] \in DOMAIN TIER_LIMITS THEN 403 ELSE 500

PositionsOf(rows, u) == {p \in rows : p.user_id = u}

check_position_limit(rows, u) ==
    Cardinality(PositionsOf(rows, u))
        < DictGet(TIER_LIMITS, UserTier[u], TIER_LIMITS["free"])

\* sum of f over S
RECURSIVE Sum(_, _)
Sum(f, S) ==
    IF S = {} THEN 0
    ELSE LET x == CHOOSE x \in S : TRUE
         IN f[x] + Sum(f, S \ {x})

\* what a float division by zero raises
ZeroDivisionError == -999999

\* a plausible slip: the division without its guard
PercentOrZeroUnguarded(profit_loss, purchase) ==
    IF purchase = 0 THEN ZeroDivisionError
    ELSE Round(profit_loss * 10000, purchase)

\* round((profit_loss / purchase * 100) if purchase > 0 else 0, 2)
PercentOrZero(profit_loss, purchase) ==
    IF purchase > 0 THEN Round(profit_loss * 10000, purchase) ELSE 0

\* the value main.py gives a position: calculate_current_value called with
\* two arguments, spread_percent at its default 0.0
SpotValueOf(prices, p) ==
    calculate_current_value(prices, p.metal_type, p.weight_grams, 0)

\* the value scheduler_snapshots.py gives it: with the effective spread
BuybackValueOf(prices, p, defaults) ==
    calculate_current_value(prices, p.metal_type, p.weight_grams,
                            get_effective_spread(p, defaults))

enrich_position(prices, p) ==
    LET current_value == SpotValueOf(prices, p)
        profit_loss == current_value - p.purchase_price_eur
    IN [id |-> p.id,
        metal_type |-> p.metal_type,
        quantity |-> p.quantity,
        weight_per_unit |-> p.weight_per_unit,
        weight_unit |-> p.weight_unit,
        weight_grams |-> p.weight_grams,
        purchase_price_eur |-> p.purchase_price_eur,
        current_value_eur |-> current_value,
        profit_loss_eur |-> profit_loss,
        profit_loss_percent |->
            PercentOrZero(profit_loss, p.purchase_price_eur)]

\* the empty summary of lines 321-330
EmptySummary ==
    [total_purchase_value_eur |-> 0,
     total_current_value_eur |-> 0,
     total_profit_loss_eur |-> 0,
     total_profit_loss_percent |-> 0,
     positions_count |-> 0,
     by_metal |-> EmptyDict,
     price_reads |-> 0]

\* the per-metal entry of lines 346-369 for the positions ps of one metal
MetalEntry(prices, ps) ==
    LET purchase == Sum([p \in ps |-> p.purchase_price_eur], ps)
        current == Sum([p \in ps |-> SpotValueOf(prices, p)], ps)
    IN [purchase_value_eur |-> purchase,
        current_value_eur |-> current,
        weight_grams |-> Sum([p \in ps |-> p.weight_grams], ps),
        positions_count |-> Cardinality(ps),
        profit_loss_eur |-> current - purchase,
        profit_loss_percent |-> PercentOrZero(current - purchase, purchase)]

\* a plausible slip: one entry per supported metal, as the weights dict of
\* update_daily_snapshot has
SummaryByMetalAll(prices, ps) ==
    [m \in Metals |-> MetalEntry(prices, {p \in ps : p.metal_type = m})]

\* by_metal: an entry is made when its metal first occurs
SummaryByMetal(prices, ps) ==
    [m \in {p.metal_type : p \in ps} |->
        MetalEntry(prices, {p \in ps : p.metal_type = m})]

\* a plausible slip: the empty summary lists the four supported metals
get_portfolio_summary_prefilled(prices, ps) ==
    IF ps = {}
    THEN [EmptySummary EXCEPT !.by_metal = SummaryByMetalAll(prices, ps)]
    ELSE LET total_purchase == Sum([p \in ps |-> p.purchase_price_eur], ps)
             total_current == Sum([p \in ps |-> SpotValueOf(prices, p)], ps)
             profit_loss == total_current - total_purchase
         IN [total_purchase_value_eur |-> total_purchase,
             total_current_value_eur |-> total_current,
             total_profit_loss_eur |-> profit_loss,
             total_profit_loss_percent |->
                 PercentOrZero(profit_loss, total_purchase),
             positions_count |-> Cardinality(ps),
             by_metal |-> SummaryByMetal(prices, ps),
             price_reads |-> Cardinality(ps)]

\* get_portfolio_summary on the user's positions ps; price_reads counts the
\* calls of calculate_current_value
get_portfolio_summary(prices, ps) ==
    IF ps = {} THEN EmptySummary
    ELSE LET total_purchase == Sum([p \in ps |-> p.purchase_price_eur], ps)
             total_current == Sum([p \in ps |-> SpotValueOf(prices, p)], ps)
             profit_loss == total_current - total_purchase
         IN [total_purchase_value_eur |-> total_purchase,
             total_current_value_eur |-> total_current,
             total_profit_loss_eur |-> profit_loss,
             total_profit_loss_percent |->
                 PercentOrZero(profit_loss, total_purchase),
             positions_count |-> Cardinality(ps),
             by_metal |-> SummaryByMetal(prices, ps),
             price_reads |-> Cardinality(ps)]

\* the seven numeric columns a snapshot writer computes from the positions
\* ps of one user; value[p] is the current value the writer gives p
SnapshotTotals(ps, value) ==
    LET WeightOf(m) ==
            Sum([p \in ps |-> IF p.metal_type = m THEN p.weight_grams ELSE 0],
                ps)
    IN [total_purchase_value_eur |->
            Sum([p \in ps |-> p.purchase_price_eur], ps),
        total_current_value_eur |-> Sum(value, ps),
        total_weight_gold_g |-> WeightOf("gold"),
        total_weight_silver_g |-> WeightOf("silver"),
        total_weight_platinum_g |-> WeightOf("platinum"),
        total_weight_palladium_g |-> WeightOf("palladium"),
        positions_count |-> Cardinality(ps)]

\* query(PortfolioSnapshot).filter(user_id == u, date == d).first(): the id
\* of a matching row, NONE when there is none
FindSnapshot(rows, u, d) ==
    IF \E s \in rows : s.user_id = u /\ s.date = d
    THEN {s.id : s \in {t \in rows : t.user_id = u /\ t.date = d}}
    ELSE {NONE}

\* a plausible slip: the row found is not looked at, a row is added
WriteSnapshotAdd(rows, found, u, d, totals) ==
    rows \cup
        {[id |-> Cardinality(rows) + 1, user_id |-> u, date |-> d,
          total_purchase_value_eur |-> totals.total_purchase_value_eur,
          total_current_value_eur |-> totals.total_current_value_eur,
          total_weight_gold_g |-> totals.total_weight_gold_g,
          total_weight_silver_g |-> totals.total_weight_silver_g,
          total_weight_platinum_g |-> totals.total_weight_platinum_g,
          total_weight_palladium_g |-> totals.total_weight_palladium_g,
          positions_count |-> totals.positions_count]}

\* `if snapshot: ... else: db.add(...)` and db.commit(), given what the
\* query found
WriteSnapshot(rows, found, u, d, totals) ==
    IF found # NONE
    THEN {IF s.id = found
          THEN [s EXCEPT
                  !.total_purchase_value_eur = totals.total_purchase_value_eur,
                  !.total_current_value_eur = totals.total_current_value_eur,
                  !.total_weight_gold_g = totals.total_weight_gold_g,
                  !.total_weight_silver_g = totals.total_weight_silver_g,
                  !.total_weight_platinum_g = totals.total_weight_platinum_g,
                  !.total_weight_palladium_g = totals.total_weight_palladium_g,
                  !.positions_count = totals.positions_count]
          ELSE s : s \in rows}
    ELSE rows \cup
        {[id |-> Cardinality(rows) + 1, user_id |-> u, date |-> d,
          total_purchase_value_eur |-> totals.total_purchase_value_eur,
          total_current_value_eur |-> totals.total_current_value_eur,
          total_weight_gold_g |-> totals.total_weight_gold_g,
          total_weight_silver_g |-> totals.total_weight_silver_g,
          total_weight_platinum_g |-> totals.total_weight_platinum_g,
          total_weight_palladium_g |-> totals.total_weight_palladium_g,
          positions_count |-> totals.positions_count]}

\* update_daily_snapshot(db, user): the table afterwards
update_daily_snapshot(prices, allPositions, rows, found, u, d) ==
    LET ps == PositionsOf(allPositions, u)
        value == [p \in ps |-> SpotValueOf(prices, p)]
    IN IF ps = {} THEN rows
       ELSE WriteSnapshot(rows, found, u, d, SnapshotTotals(ps, value))

\* get_user_settings(db, user): the row, created from the gold table when
\* the user has none
get_user_settings(settings, u) ==
    IF settings[u].exists THEN settings[u]
    ELSE [exists |-> TRUE, default_spreads |-> REFERENCE_SPREADS["gold"]]

\* create_snapshot_for_user(db, user) past its emptiness test: the table
\* afterwards
create_snapshot_for_user(prices, allPositions, rows, found, settings, u, d) ==
    LET ps == PositionsOf(allPositions, u)
        defaults == get_user_settings(settings, u).default_spreads
        value == [p \in ps |-> BuybackValueOf(prices, p, defaults)]
    IN WriteSnapshot(rows, found, u, d, SnapshotTotals(ps, value))

\* rows in ascending order of date (rows of one date in order of id)
RECURSIVE OrderByDate(_)
OrderByDate(rows) ==
    IF rows = {} THEN <<>>
    ELSE LET s == CHOOSE s \in rows :
                    \A t \in rows :
                        \/ s.date < t.date
                        \/ (s.date = t.date /\ s.id <= t.id)
         IN <<s>> \o OrderByDate(rows \ {s})

\* one entry of the history response, lines 400-410
HistoryEntry(s) ==
    LET profit_loss == s.total_current_value_eur - s.total_purchase_value_eur
    IN [date |-> s.date,
        total_purchase_value_eur |-> s.total_purchase_value_eur,
        total_current_value_eur |-> s.total_current_value_eur,
        profit_loss_eur |-> profit_loss,
        profit_loss_percent |->
            PercentOrZero(profit_loss, s.total_purchase_value_eur),
        positions_count |-> s.positions_count]

get_portfolio_history(rows, u, d, days) ==
    LET start_date == d - days
        selected == OrderByDate({s \in rows :
                                    s.user_id = u /\ s.date >= start_date})
    IN [snapshots |-> [i \in DOMAIN selected |-> HistoryEntry(selected[i])],
        period_days |-> days]

\* request bodies the schemas accept
\* PositionCreate: 1 x 1.0 g of gold for 90.00 EUR with a spread of 5 %;
\* 1 x 1.0 oz of silver for 30.00 EUR
CreateBodies ==
    {[metal_type |-> "gold", spread_category |-> "coin_bullion",
      quantity |-> 1, weight_per_unit |-> 10, weight_unit |-> "g",
      purchase_price_eur |-> 9000, spread_percent |-> 50,
      discount_percent |-> NONE],
     [metal_type |-> "silver", spread_category |-> "bar_large",
      quantity |-> 1, weight_per_unit |-> 10, weight_unit |-> "oz",
      purchase_price_eur |-> 3000, spread_percent |-> NONE,
      discount_percent |-> NONE]}
\* PositionUpdate, the fields that are set
UpdateBodies == {[quantity |-> 2], [spread_percent |-> 50]}
\* UserSettingsUpdate.default_spreads
SettingsBodies == {[bar_large |-> 10]}
\* the query parameter days of /api/history
DaysInputs == {7, 30}

\* a row copied from an older database: bought for nothing
LegacyPosition ==
    [id |-> 1, user_id |-> 1, metal_type |-> "gold",
     spread_category |-> "bar_large", quantity |-> 1,
     weight_per_unit |-> 10, weight_unit |-> "g", weight_grams |-> 10,
     purchase_price_eur |-> 0, spread_percent |-> NONE,
     discount_percent |-> NONE]

InitPortfolio ==
    /\ InitCache
    /\ InitSpread
    /\ accepted = "pending"
    /\ valuation = NoValuation
    /\ fetched_prices \in {LivePrices, get_fallback_prices}
    /\ positions \in {{}, {LegacyPosition}}
    /\ next_id = Cardinality(positions) + 1
    /\ snapshots = {}
    /\ user_settings = [u \in Users |-> NoSettings]
    /\ today = 0
    /\ response = NoResponse
    /\ ops = 0
    /\ writer = [w \in Writers |-> IdleWriter]
    /\ InitRun

\* an exception that leaves the handler is answered with status 500
StatusOf(percents) == IF ZeroDivisionError \in percents THEN 500 ELSE 200

\* the row create_position stores: spread_category, spread_percent and
\* discount_percent of the body are not passed on, the columns take their
\* defaults
NewPosition(id, u, body) ==
    [id |-> id, user_id |-> u,
     metal_type |-> body.metal_type,
     spread_category |-> "bar_large",
     quantity |-> body.quantity,
     weight_per_unit |-> body.weight_per_unit,
     weight_unit |-> body.weight_unit,
     weight_grams |->
         convert_to_grams(body.weight_per_unit, body.weight_unit)
             * body.quantity,
     purchase_price_eur |-> body.purchase_price_eur,
     spread_percent |-> NONE,
     discount_percent |-> NONE]

\* POST /api/positions
create_position(u, body) ==
    /\ ops < MaxOps
    /\ ops' = ops + 1
    /\ IF ~check_position_limit(positions, u)
       THEN /\ response' = [op |-> "create_position", user_id |-> u,
                            status |-> LimitStatus(u), body |-> EmptyDict]
            /\ UNCHANGED <<positions, snapshots, next_id>>
       ELSE LET db_position == NewPosition(next_id, u, body)
                enriched == enrich_position(fetched_prices, db_position)
            IN /\ positions' = positions \cup {db_position}
               /\ next_id' = next_id + 1
               /\ \E found \in FindSnapshot(snapshots, u, today) :
                     snapshots' = update_daily_snapshot(
                                      fetched_prices, positions', snapshots,
                                      found, u, today)
               /\ response' =
                     [op |-> "create_position", user_id |-> u,
                      status |-> StatusOf({enriched.profit_loss_percent}),
                      body |-> enriched]
    /\ UNCHANGED <<cacheVars, spreadVars, runVars,
                   accepted, valuation, fetched_prices,
                   writer,
                   user_settings, today>>

\* a plausible slip: the weight is recomputed for a new weight per unit or a
\* new unit, not for a new quantity
ApplyUpdateUnitOnly(stored, body) ==
    LET set == DOMAIN body
        merged == [f \in DOMAIN stored |->
                      IF f \in set THEN body[f] ELSE stored[f]]
    IN IF set \cap {"weight_per_unit", "weight_unit"} # {}
       THEN [merged EXCEPT
               !.weight_grams =
                   convert_to_grams(merged.weight_per_unit,
                                    merged.weight_unit) * merged.quantity]
       ELSE merged

\* the loop of setattr over update_data, with weight_grams recomputed when
\* one of its three inputs is in update_data
ApplyUpdate(stored, body) ==
    LET set == DOMAIN body
        merged == [f \in DOMAIN stored |->
                      IF f \in set THEN body[f] ELSE stored[f]]
    IN IF set \cap {"weight_per_unit", "weight_unit", "quantity"} # {}
       THEN [merged EXCEPT
               !.weight_grams =
                   convert_to_grams(merged.weight_per_unit,
                                    merged.weight_unit) * merged.quantity]
       ELSE merged

\* PUT /api/positions/{position_id}
update_position(u, position_id, body) ==
    /\ ops < MaxOps
    /\ ops' = ops + 1
    /\ IF ~\E p \in positions : p.id = position_id /\ p.user_id = u
       THEN /\ response' = [op |-> "update_position", user_id |-> u,
                            status |-> 404, body |-> EmptyDict]
            /\ UNCHANGED <<positions, snapshots>>
       ELSE LET stored == CHOOSE p \in positions :
                                p.id = position_id /\ p.user_id = u
                updated == ApplyUpdate(stored, body)
                enriched == enrich_position(fetched_prices, updated)
            IN /\ positions' = (positions \ {stored}) \cup {updated}
               /\ \E found \in FindSnapshot(snapshots, u, today) :
                     snapshots' = update_daily_snapshot(
                                      fetched_prices, positions', snapshots,
                                      found, u, today)
               /\ response' =
                     [op |-> "update_position", user_id |-> u,
                      status |-> StatusOf({enriched.profit_loss_percent}),
                      body |-> enriched]
    /\ UNCHANGED <<cacheVars, spreadVars, runVars,
                   accepted, valuation, fetched_prices,
                   writer,
                   user_settings, today, next_id>>

\* DELETE /api/positions/{position_id}
delete_position(u, position_id) ==
    /\ ops < MaxOps
    /\ ops' = ops + 1
    /\ IF ~\E p \in positions : p.id = position_id /\ p.user_id = u
       THEN /\ response' = [op |-> "delete_position", user_id |-> u,
                            status |-> 404, body |-> EmptyDict]
            /\ UNCHANGED <<positions, snapshots>>
       ELSE /\ positions' =
                 {p \in positions : ~(p.id = position_id /\ p.user_id = u)}
            /\ \E found \in FindSnapshot(snapshots, u, today) :
                  snapshots' = update_daily_snapshot(
                                   fetched_prices, positions', snapshots,
                                   found, u, today)
            /\ response' = [op |-> "delete_position", user_id |-> u,
                            status |-> 200, body |-> [id |-> position_id]]
    /\ UNCHANGED <<cacheVars, spreadVars, runVars,
                   accepted, valuation, fetched_prices,
                   writer,
                   user_settings, today, next_id>>

\* the percentages a summary carries
SummaryPercents(summary) ==
    {summary.total_profit_loss_percent} \cup
        {summary.by_metal[m].profit_loss_percent :
            m \in DOMAIN summary.by_metal}

\* GET /api/summary
GetSummary(u) ==
    /\ ops < MaxOps
    /\ ops' = ops + 1
    /\ LET summary == get_portfolio_summary(fetched_prices,
                                            PositionsOf(positions, u))
       IN response' = [op |-> "get_portfolio_summary", user_id |-> u,
                       status |-> StatusOf(SummaryPercents(summary)),
                       body |-> summary]
    /\ UNCHANGED <<cacheVars, spreadVars, runVars,
                   accepted, valuation, fetched_prices,
                   writer,
                   positions, snapshots, user_settings, today, next_id>>

\* GET /api/history?days=...
GetHistory(u, days) ==
    /\ ops < MaxOps
    /\ ops' = ops + 1
    /\ LET history == get_portfolio_history(snapshots, u, today, days)
       IN response' =
             [op |-> "get_portfolio_history", user_id |-> u,
              status |-> StatusOf({history.snapshots[i].profit_loss_percent :
                                      i \in DOMAIN history.snapshots}),
              body |-> history]
    /\ UNCHANGED <<cacheVars, spreadVars, runVars,
                   accepted, valuation, fetched_prices,
                   writer,
                   positions, snapshots, user_settings, today, next_id>>

\* POST /api/history/snapshot
create_snapshot(u) ==
    /\ ops < MaxOps
    /\ ops' = ops + 1
    /\ \E found \in FindSnapshot(snapshots, u, today) :
          snapshots' = update_daily_snapshot(fetched_prices, positions,
                                             snapshots, found, u, today)
    /\ response' = [op |-> "create_snapshot", user_id |-> u,
                    status |-> 200, body |-> [date |-> today]]
    /\ UNCHANGED <<cacheVars, spreadVars, runVars,
                   accepted, valuation, fetched_prices,
                   writer,
                   positions, user_settings, today, next_id>>

\* run_daily_snapshots reaches user u, one of the users with positions
SnapshotJob(u) ==
    /\ ops < MaxOps
    /\ ops' = ops + 1
    /\ PositionsOf(positions, u) # {}
    /\ user_settings' =
          [user_settings EXCEPT ![u] = get_user_settings(user_settings, u)]
    /\ \E found \in FindSnapshot(snapshots, u, today) :
          snapshots' = create_snapshot_for_user(
                           fetched_prices, positions, snapshots, found,
                           user_settings, u, today)
    /\ response' = [op |-> "create_snapshot_for_user", user_id |-> u,
                    status |-> 0, body |-> [created |-> TRUE]]
    /\ UNCHANGED <<cacheVars, spreadVars, runVars,
                   accepted, valuation, fetched_prices,
                   writer,
                   positions, today, next_id>>

\* the user's settings update: the row is made if missing, default_spreads
\* is stored
UpdateSettings(u, body) ==
    /\ ops < MaxOps
    /\ ops' = ops + 1
    /\ user_settings' =
          [user_settings EXCEPT
              ![u] = [exists |-> TRUE, default_spreads |-> body]]
    /\ response' = [op |-> "update_settings", user_id |-> u,
                    status |-> 200, body |-> body]
    /\ UNCHANGED <<cacheVars, spreadVars, runVars,
                   accepted, valuation, fetched_prices,
                   writer,
                   positions, snapshots, today, next_id>>

\* midnight
NextDay ==
    /\ today < MaxDay
    /\ today' = today + 1
    /\ response' = NoResponse
    /\ UNCHANGED <<cacheVars, spreadVars, runVars,
                   accepted, valuation, fetched_prices,
                   writer,
                   positions, snapshots, user_settings, ops, next_id>>

NextPortfolio ==
    \/ \E u \in Users : \E body \in CreateBodies : create_position(u, body)
    \/ \E u \in Users : \E p \in positions : \E body \in UpdateBodies :
          update_position(u, p.id, body)
    \/ \E u \in Users : \E p \in positions : delete_position(u, p.id)
    \/ \E u \in Users : GetSummary(u)
    \/ \E u \in Users : \E days \in DaysInputs : GetHistory(u, days)
    \/ \E u \in Users : create_snapshot(u)
    \/ \E u \in Users : SnapshotJob(u)
    \/ \E u \in Users : \E body \in SettingsBodies : UpdateSettings(u, body)
    \/ NextDay

SpecPortfolio == InitPortfolio /\ [][NextPortfolio]_vars

\* ===================================================== the upsert, step by step
\* the web application and the scheduler's process are two database
\* sessions; the statements of one upsert interleave with the other's

\* user 1 holds a position, user 2 may hold one
InitUpsert ==
    /\ InitCache
    /\ InitSpread
    /\ accepted = "pending"
    /\ valuation = NoValuation
    /\ fetched_prices \in {LivePrices, get_fallback_prices}
    /\ \E b1 \in CreateBodies :
          positions \in
              {{NewPosition(1, 1, b1)}} \cup
                  {{NewPosition(1, 1, b1), NewPosition(2, 2, b2)} :
                      b2 \in CreateBodies}
    /\ next_id = Cardinality(positions) + 1
    /\ snapshots = {}
    /\ user_settings = [u \in Users |-> NoSettings]
    /\ today = 0
    /\ response = NoResponse
    /\ ops = 0
    /\ writer = [w \in Writers |-> IdleWriter]
    /\ InitRun

\* the writer loads the user's positions and sums them up: lines 463-480 of
\* update_daily_snapshot, lines 64-90 of create_snapshot_for_user
WriterLoad(w, u) ==
    /\ writer[w].pc = "idle"
    /\ ops < MaxOps
    /\ ops' = ops + 1
    /\ PositionsOf(positions, u) # {}
    /\ LET ps == PositionsOf(positions, u)
           defaults == get_user_settings(user_settings, u).default_spreads
           Spot == [p \in ps |-> SpotValueOf(fetched_prices, p)]
           Buyback == [p \in ps |->
                          BuybackValueOf(fetched_prices, p, defaults)]
       IN IF w = "job"
          THEN /\ user_settings' =
                     [user_settings EXCEPT
                         ![u] = get_user_settings(user_settings, u)]
               /\ writer' = [writer EXCEPT
                                ![w] = [pc |-> "loaded", user_id |-> u,
                                        totals |-> SnapshotTotals(ps, Buyback),
                                        found |-> NONE]]
          ELSE /\ UNCHANGED user_settings
               /\ writer' = [writer EXCEPT
                                ![w] = [pc |-> "loaded", user_id |-> u,
                                        totals |-> SnapshotTotals(ps, Spot),
                                        found |-> NONE]]
    /\ UNCHANGED <<cacheVars, spreadVars, runVars,
                   accepted, valuation, fetched_prices,
                   positions, snapshots, today, response, next_id>>

\* the query for today's snapshot of the user
WriterFind(w) ==
    /\ writer[w].pc = "loaded"
    /\ \E found \in FindSnapshot(snapshots, writer[w].user_id, today) :
          writer' = [writer EXCEPT ![w].pc = "found", ![w].found = found]
    /\ UNCHANGED <<cacheVars, spreadVars, runVars,
                   accepted, valuation, fetched_prices,
                   dbVars>>

\* the row found is overwritten, or a row is added; db.commit()
WriterCommit(w) ==
    /\ writer[w].pc = "found"
    /\ snapshots' = WriteSnapshot(snapshots, writer[w].found,
                                  writer[w].user_id, today, writer[w].totals)
    /\ writer' = [writer EXCEPT ![w] = IdleWriter]
    /\ response' =
          [op |-> IF w = "job" THEN "create_snapshot_for_user"
                  ELSE "create_snapshot",
           user_id |-> writer[w].user_id, status |-> 200,
           body |-> [date |-> today]]
    /\ UNCHANGED <<cacheVars, spreadVars, runVars,
                   accepted, valuation, fetched_prices,
                   positions, user_settings, today, ops, next_id>>

NextUpsert ==
    \/ \E w \in Writers : \E u \in Users : WriterLoad(w, u)
    \/ \E w \in Writers : WriterFind(w)
    \/ \E w \in Writers : WriterCommit(w)

SpecUpsert == InitUpsert /\ [][NextUpsert]_vars

\* ================================================= the job of snapshot_job.py
\* prices.get(p.metal_type, 0) * p.weight_grams, lines 41-42 (no rounding in
\* the code; fractions of a cent are dropped here)
DailyValueOf(prices, p) ==
    ((IF p.metal_type \in DOMAIN prices THEN prices[p.metal_type].price
      ELSE 0) * p.weight_grams) \div 10

\* query(PortfolioSnapshot).filter(date == d).first(): the id of a row of
\* that date, whoever owns it, NONE when there is none
FindSnapshotByDate(rows, d) ==
    IF \E s \in rows : s.date = d
    THEN {s.id : s \in {t \in rows : t.date = d}}
    ELSE {NONE}

\* python snapshot_job.py: one snapshot over the positions of all users.
\* The row it adds carries no user_id: the column is NOT NULL in models.py
\* and in the baseline migration (the commit raises IntegrityError), and
\* nullable in a database that migrate_to_saas.py altered.
create_daily_snapshot ==
    /\ ops < MaxOps
    /\ ops' = ops + 1
    /\ IF positions = {}
       THEN /\ UNCHANGED snapshots
            /\ response' = [op |-> "create_daily_snapshot", user_id |-> 0,
                            status |-> 0, body |-> [created |-> FALSE]]
       ELSE LET value == [p \in positions |->
                             DailyValueOf(fetched_prices, p)]
                totals == SnapshotTotals(positions, value)
            IN \E found \in FindSnapshotByDate(snapshots, today) :
                  \E nullable \in BOOLEAN :
                     IF found = NONE /\ ~nullable
                     THEN /\ UNCHANGED snapshots
                          /\ response' =
                                [op |-> "create_daily_snapshot",
                                 user_id |-> 0, status |-> 1,
                                 body |-> [created |-> FALSE]]
                     ELSE /\ snapshots' = WriteSnapshot(snapshots, found,
                                                        NONE, today, totals)
                          /\ response' =
                                [op |-> "create_daily_snapshot",
                                 user_id |-> 0, status |-> 0,
                                 body |-> [created |-> TRUE]]
    /\ UNCHANGED <<cacheVars, spreadVars, runVars,
                   accepted, valuation, fetched_prices,
                   writer,
                   positions, user_settings, today, next_id>>

\* the three snapshot writers, one run after the other, over positions that
\* stay as they are
NextJobs ==
    \/ \E u \in Users : create_snapshot(u)
    \/ \E u \in Users : SnapshotJob(u)
    \/ create_daily_snapshot
    \/ NextDay

SpecJobs == InitUpsert /\ [][NextJobs]_vars

\* ====================================================== the history, over days
\* both users hold a gram of gold, live prices are cached
InitHistory ==
    /\ InitUpsert
    /\ fetched_prices = LivePrices
    /\ \A p \in positions : p.metal_type = "gold"
    /\ Cardinality(positions) = 2

\* midnight, with no snapshot writer at work
HistoryNextDay ==
    /\ today < MaxHistoryDay
    /\ \A w \in Writers : writer[w].pc = "idle"
    /\ today' = today + 1
    /\ UNCHANGED <<cacheVars, spreadVars, runVars,
                   accepted, valuation, fetched_prices,
                   writer,
                   positions, snapshots, user_settings, response, ops,
                   next_id>>

\* the web application and the scheduler's job write snapshots, the user
\* asks for the history, days pass
NextHistory ==
    \/ NextUpsert
    \/ \E u \in Users : \E days \in DaysInputs : GetHistory(u, days)
    \/ HistoryNextDay

SpecHistory == InitHistory /\ [][NextHistory]_vars

\* ================================================ the weight of a position
\* PositionUpdate bodies: every choice among quantity, weight_per_unit and
\* weight_unit, and a body with none of the three
WeightUpdateBodies ==
    {[quantity |-> 3], [weight_per_unit |-> 25], [weight_unit |-> "g"],
     [quantity |-> 3, weight_per_unit |-> 25],
     [quantity |-> 3, weight_unit |-> "g"],
     [weight_per_unit |-> 25, weight_unit |-> "g"],
     [quantity |-> 3, weight_per_unit |-> 25, weight_unit |-> "g"],
     [purchase_price_eur |-> 4000]}

\* user 1 adds positions given in ounces and edits the positions held
NextWeight ==
    \/ \E body \in {b \in CreateBodies : b.weight_unit = "oz"} :
          create_position(1, body)
    \/ \E p \in positions : \E body \in WeightUpdateBodies :
          update_position(1, p.id, body)

SpecWeight == InitPortfolio /\ [][NextWeight]_vars

\* ==================================================== the history backfill
\* HistoryBackfiller as the specification describes it (section 4.6); the
\* sources hold no implementation of it

\* the row of a position with its column purchase_date
Purchased(p, purchase_date) ==
    [f \in DOMAIN p \cup {"purchase_date"} |->
        IF f = "purchase_date" THEN purchase_date ELSE p[f]]

\* the walk goes back at most a year
BACKFILL_MAX_DAYS == 365

\* a plausible slip: the walk starts at the purchase date, however old
BackfillFromPurchase(p, d0) == p.purchase_date

\* max(position.purchaseDate, today - 365)
BackfillFrom(p, d0) ==
    IF p.purchase_date > d0 - BACKFILL_MAX_DAYS THEN p.purchase_date
    ELSE d0 - BACKFILL_MAX_DAYS

\* a plausible slip: the walk does not look for a snapshot of the day
BackfillSkipsNever(rows, u, d) == FALSE

\* a snapshot already exists for (owner, d)
BackfillSkips(rows, u, d) == \E s \in rows : s.user_id = u /\ s.date = d

\* the pseudo-random generator: its seed is drawn for a run, between -10 %
\* and +5 % (in tenths of a percent)
VarianceSeeds == {-100, 0, 50}

\* the variance factor of a day, scaled by daysAgo / 365
VarianceOf(seed, days_ago) == (seed * days_ago) \div BACKFILL_MAX_DAYS

\* the aggregate of day d: the owner's positions bought on or before d, at
\* the reference prices with the day's variance applied to every metal
BackfillTotals(prices, allPositions, u, d, d0, seed) ==
    LET ps == {p \in PositionsOf(allPositions, u) : p.purchase_date <= d}
        value == [p \in ps |->
                     Round(SpotValueOf(prices, p)
                               * (1000 + VarianceOf(seed, d0 - d)), 1000)]
    IN SnapshotTotals(ps, value)

\* day 400: user 1 has just stored a position bought 400 or 4 days ago and
\* may hold one bought 2 days ago; yesterday's snapshot exists, and perhaps
\* one of three days ago
InitBackfill ==
    /\ InitCache
    /\ InitSpread
    /\ accepted = "pending"
    /\ valuation = NoValuation
    /\ fetched_prices = LivePrices
    /\ today = 400
    /\ \E b1, b2 \in CreateBodies : \E bought \in {0, 396} :
          positions \in
              {{Purchased(NewPosition(1, 1, b1), bought)},
               {Purchased(NewPosition(1, 1, b1), bought),
                Purchased(NewPosition(2, 1, b2), 398)}}
    /\ next_id = Cardinality(positions) + 1
    /\ \E found \in {NONE} :
          snapshots \in
              {update_daily_snapshot(fetched_prices, positions, {}, found,
                                     1, 399),
               update_daily_snapshot(
                   fetched_prices, positions,
                   update_daily_snapshot(fetched_prices, positions, {},
                                         found, 1, 397),
                   found, 1, 399)}
    /\ user_settings = [u \in Users |-> NoSettings]
    /\ response = NoResponse
    /\ ops = 0
    /\ writer = [w \in Writers |-> IdleWriter]
    /\ InitRun

\* backfill(position, allPositions, referencePrices) is triggered, once for
\* a position bought before the latest snapshot
BackfillStart(p) ==
    /\ backfill.pc # "walking"
    /\ p.id \notin backfill.backfilled
    /\ \E s \in snapshots : s.user_id = p.user_id /\ p.purchase_date < s.date
    /\ \E seed \in VarianceSeeds :
          backfill' = [pc |-> "walking", user_id |-> p.user_id,
                       position_id |-> p.id, d |-> BackfillFrom(p, today),
                       seed |-> seed, written |-> {}, before |-> snapshots,
                       backfilled |-> backfill.backfilled \cup {p.id}]
    /\ UNCHANGED <<cacheVars, spreadVars, accepted, valuation, fetched_prices,
                   dbVars, writer, creating>>

\* one day of the walk: skipped, or its snapshot added to the transaction
BackfillDay ==
    /\ backfill.pc = "walking"
    /\ backfill.d < today
    /\ LET u == backfill.user_id
           d == backfill.d
           seen == snapshots \cup backfill.written
           totals == BackfillTotals(fetched_prices, positions, u, d, today,
                                    backfill.seed)
       IN IF BackfillSkips(seen, u, d)
             \/ totals.total_purchase_value_eur = 0
          THEN backfill' = [backfill EXCEPT !.d = d + 1]
          ELSE backfill' =
                  [backfill EXCEPT
                      !.d = d + 1,
                      !.written = WriteSnapshot(seen, NONE, u, d, totals)
                                      \ snapshots]
    /\ UNCHANGED <<cacheVars, spreadVars, accepted, valuation, fetched_prices,
                   dbVars, writer, creating>>

\* the walk is over: the days written are committed together
BackfillCommit ==
    /\ backfill.pc = "walking"
    /\ backfill.d = today
    /\ snapshots' = snapshots \cup backfill.written
    /\ backfill' = [backfill EXCEPT !.pc = "done", !.written = {}]
    /\ response' = [op |-> "backfill", user_id |-> backfill.user_id,
                    status |-> 200, body |-> EmptyDict]
    /\ UNCHANGED <<cacheVars, spreadVars, accepted, valuation, fetched_prices,
                   writer, creating,
                   positions, user_settings, today, ops, next_id>>

\* a plausible slip: the days written before the failure are committed
BackfillFailKeep ==
    /\ backfill.pc = "walking"
    /\ backfill.d < today
    /\ snapshots' = snapshots \cup backfill.written
    /\ backfill' = [backfill EXCEPT !.pc = "failed", !.written = {}]
    /\ response' = [op |-> "backfill", user_id |-> backfill.user_id,
                    status |-> 500, body |-> EmptyDict]
    /\ UNCHANGED <<cacheVars, spreadVars, accepted, valuation, fetched_prices,
                   writer, creating,
                   positions, user_settings, today, ops, next_id>>

\* BackfillPartialFailure at a day of the walk: the transaction is rolled
\* back and the error is surfaced
BackfillFail ==
    /\ backfill.pc = "walking"
    /\ backfill.d < today
    /\ backfill' = [backfill EXCEPT !.pc = "failed", !.written = {}]
    /\ response' = [op |-> "backfill", user_id |-> backfill.user_id,
                    status |-> 500, body |-> EmptyDict]
    /\ UNCHANGED <<cacheVars, spreadVars, accepted, valuation, fetched_prices,
                   writer, creating,
                   positions, snapshots, user_settings, today, ops, next_id>>

NextBackfill ==
    \/ \E p \in positions : BackfillStart(p)
    \/ BackfillDay
    \/ BackfillCommit
    \/ BackfillFail

SpecBackfill == InitBackfill /\ [][NextBackfill]_vars

\* ============================================== requests for a position id
\* a plausible slip: the query filters on the id alone
get_position_any(u, position_id) ==
    /\ ops < MaxOps
    /\ ops' = ops + 1
    /\ IF ~\E p \in positions : p.id = position_id
       THEN response' = [op |-> "get_position", user_id |-> u,
                         status |-> 404, body |-> EmptyDict]
       ELSE LET stored == CHOOSE p \in positions : p.id = position_id
            IN response' = [op |-> "get_position", user_id |-> u,
                            status |-> 200,
                            body |-> enrich_position(fetched_prices, stored)]
    /\ UNCHANGED <<cacheVars, spreadVars, runVars,
                   accepted, valuation, fetched_prices, writer,
                   positions, snapshots, user_settings, today, next_id>>

\* GET /api/positions/{position_id}
get_position(u, position_id) ==
    /\ ops < MaxOps
    /\ ops' = ops + 1
    /\ IF ~\E p \in positions : p.id = position_id /\ p.user_id = u
       THEN response' = [op |-> "get_position", user_id |-> u,
                         status |-> 404, body |-> EmptyDict]
       ELSE LET stored == CHOOSE p \in positions :
                                p.id = position_id /\ p.user_id = u
            IN response' = [op |-> "get_position", user_id |-> u,
                            status |-> 200,
                            body |-> enrich_position(fetched_prices, stored)]
    /\ UNCHANGED <<cacheVars, spreadVars, runVars,
                   accepted, valuation, fetched_prices, writer,
                   positions, snapshots, user_settings, today, next_id>>

\* GET /api/positions?metal_type=...: the user's positions, of one metal
\* when the filter is set ("" stands for no filter); the order of the list
\* is left out
get_positions(u, metal_type) ==
    /\ ops < MaxOps
    /\ ops' = ops + 1
    /\ LET selected == {p \in positions :
                           /\ p.user_id = u
                           /\ metal_type # "" => p.metal_type = metal_type}
       IN response' =
             [op |-> "get_positions", user_id |-> u, status |-> 200,
              body |-> [positions |->
                           {enrich_position(fetched_prices, p) :
                               p \in selected}]]
    /\ UNCHANGED <<cacheVars, spreadVars, runVars,
                   accepted, valuation, fetched_prices, writer,
                   positions, snapshots, user_settings, today, next_id>>

\* two users ask for, change and delete positions by id, their own and the
\* other's
NextIsolation ==
    \/ \E u \in Users : \E p \in positions : get_position(u, p.id)
    \/ \E u \in Users : \E m \in {"", "gold"} : get_positions(u, m)
    \/ \E u \in Users : \E p \in positions : \E body \in UpdateBodies :
          update_position(u, p.id, body)
    \/ \E u \in Users : \E p \in positions : delete_position(u, p.id)
    \/ \E u \in Users : GetSummary(u)

SpecIsolation == InitUpsert /\ [][NextIsolation]_vars

\* ===================================== create_position, await by await
\* requests are coroutines of one event loop (uvicorn.run(app), one
\* process): a request runs alone from one await to the next

\* user u0 holds one position short of the free limit, the last one stored
\* today
InitLimit ==
    /\ InitCache
    /\ InitSpread
    /\ accepted = "pending"
    /\ valuation = NoValuation
    /\ fetched_prices = LivePrices
    /\ today = 0
    /\ \E u0 \in Users : \E body \in CreateBodies :
          /\ body.metal_type = "silver"
          /\ positions = {NewPosition(i, u0, body) :
                             i \in 1..(TIER_LIMITS["free"] - 1)}
          /\ \E found \in {NONE} :
                snapshots = update_daily_snapshot(fetched_prices, positions,
                                                  {}, found, u0, today)
    /\ next_id = Cardinality(positions) + 1
    /\ user_settings = [u \in Users |-> NoSettings]
    /\ response = NoResponse
    /\ ops = 0
    /\ writer = [w \in Writers |-> IdleWriter]
    /\ InitRun

\* lines 160-185: the limit is checked, the row is added and committed,
\* with no await in between
CreateInsert(c, u, body) ==
    /\ creating[c].pc = "idle"
    /\ ops < MaxOps
    /\ ops' = ops + 1
    /\ IF ~check_position_limit(positions, u)
       THEN /\ response' = [op |-> "create_position", user_id |-> u,
                            status |-> LimitStatus(u), body |-> EmptyDict]
            /\ UNCHANGED <<positions, next_id, creating>>
       ELSE /\ positions' = positions \cup {NewPosition(next_id, u, body)}
            /\ next_id' = next_id + 1
            /\ creating' = [creating EXCEPT
                               ![c] = [pc |-> "inserted", user_id |-> u,
                                       position_id |-> next_id,
                                       totals |-> NoTotals]]
            /\ UNCHANGED response
    /\ UNCHANGED <<cacheVars, spreadVars, accepted, valuation, fetched_prices,
                   writer, backfill, snapshots, user_settings, today>>

\* update_daily_snapshot up to its first await: the user's positions are
\* loaded (lines 463-469; the sums of lines 471-480 are taken over them)
CreateLoad(c) ==
    /\ creating[c].pc = "inserted"
    /\ LET ps == PositionsOf(positions, creating[c].user_id)
           Spot == [p \in ps |-> SpotValueOf(fetched_prices, p)]
       IN creating' = [creating EXCEPT
                          ![c].pc = "loaded",
                          ![c].totals = SnapshotTotals(ps, Spot)]
    /\ UNCHANGED <<cacheVars, spreadVars, accepted, valuation, fetched_prices,
                   writer, backfill, dbVars>>

\* lines 482-510 and the return of create_position: today's snapshot is
\* written, the position is answered
CreateRespond(c) ==
    /\ creating[c].pc = "loaded"
    /\ LET u == creating[c].user_id
           stored == CHOOSE p \in positions : p.id = creating[c].position_id
       IN /\ \E found \in FindSnapshot(snapshots, u, today) :
                snapshots' = WriteSnapshot(snapshots, found, u, today,
                                           creating[c].totals)
          /\ response' = [op |-> "create_position", user_id |-> u,
                          status |-> 200,
                          body |-> enrich_position(fetched_prices, stored)]
    /\ creating' = [creating EXCEPT ![c] = IdleCreate]
    /\ UNCHANGED <<cacheVars, spreadVars, accepted, valuation, fetched_prices,
                   writer, backfill, positions, user_settings, today, ops,
                   next_id>>

NextLimit ==
    \/ \E c \in Callers : \E u \in Users :
          \E body \in {b \in CreateBodies : b.metal_type = "silver"} :
             CreateInsert(c, u, body)
    \/ \E c \in Callers : CreateLoad(c)
    \/ \E c \in Callers : CreateRespond(c)

SpecLimit == InitLimit /\ [][NextLimit]_vars

\* ================================================================== claims
Done(c) == pc[c] = "done"
\* the caller's fetch ended in an exception
Failed(c) == Done(c) /\ Raises(got[c])
\* the caller's fetch ended in a parsed, usable body
Fetched(c) == Done(c) /\ got[c].why = "ok" /\ ~Raises(got[c])
SingleEpoch(mapping) ==
    \A x, y \in DOMAIN mapping : mapping[x].epoch = mapping[y].epoch

\* C1 (first half): a call made while now - lastFetchTime < 5 minutes
\* returns the cached mapping at once, sends no request to the provider and
\* leaves the cached mapping and its timestamp as they were.
C1_HitStep ==
    \A c \in Callers :
        (/\ pc[c] = "idle" /\ pc'[c] # "idle"
         /\ cache_timestamp # NONE /\ now - cache_timestamp < 5)
        => /\ pc'[c] = "done"
           /\ result'[c] = price_cache
           /\ fetches' = fetches
           /\ price_cache' = price_cache
           /\ cache_timestamp' = cache_timestamp

\* C1 (second half): of two successive calls, if the second is made within
\* 5 minutes of the cache timestamp the first one left, it returns the
\* identical mapping, without a fetch, and the timestamp is unchanged.
C1_SameWindow ==
    \A c, d \in Callers :
        (/\ Done(c) /\ Done(d) /\ d \in after[c]
         /\ tsAt[d] # NONE /\ callAt[c] - tsAt[d] < 5)
        => /\ result[c] = result[d]
           /\ tsAt[c] = tsAt[d]
           /\ fetchId[c] = 0

C2_StaleOnFailure ==
    \A c \in Callers :
        (/\ Failed(c) /\ priorSuccess[c]
         /\ tsAt[c] # NONE /\ callAt[c] - tsAt[c] >= 5)
        => /\ result[c] # get_fallback_prices
           /\ result[c] = price_cache
           /\ cache_timestamp = tsAt[c]

\* C3: single-flight - while the cache is missing or past its TTL, at most
\* one external fetch is in flight; the other callers wait for it.
C3_SingleFlight == Cardinality({c \in Callers : pc[c] = "fetching"}) <= 1

\* C4: fallback - when a fetch fails and no fetch has ever succeeded, the
\* call returns the hardcoded table, which has one positive EUR/gram value
\* for each of gold, silver, platinum and palladium; the table is never
\* stored in the cache.
C4_Fallback ==
    /\ \A c \in Callers :
          (Failed(c) /\ ~priorSuccess[c])
          => /\ DOMAIN result[c] = {"gold", "silver", "platinum", "palladium"}
             /\ \A m \in DOMAIN result[c] :
                   result[c][m].epoch = 0 /\ result[c][m].price > 0
    /\ \A m \in DOMAIN price_cache : price_cache[m].epoch # 0

C4_Witness ==
    \E c \in Callers :
        /\ Failed(c) /\ ~priorSuccess[c] /\ got[c].why = "status"
        /\ result[c] = get_fallback_prices
        /\ price_cache = EmptyDict /\ cache_timestamp = NONE

\* C5 (first half): a fetch that succeeds replaces the cached mapping by the
\* prices of its response and the timestamp by the current time, and
\* returns that mapping.
C5_RefreshStep ==
    \A c \in Callers :
        (/\ pc[c] = "fetching" /\ pc'[c] = "done"
         /\ got'[c].why = "ok" /\ ~Raises(got'[c]))
        => /\ price_cache' = BuildPrices(got'[c].data, fetchId[c])
           /\ cache_timestamp' = now
           /\ result'[c] = price_cache'

\* C5 (second half): the next call made within 5 minutes of a successful
\* refresh returns the mapping of that refresh.
C5_NextCall ==
    \A c, d \in Callers :
        (/\ Done(c) /\ Fetched(d) /\ d \in after[c]
         /\ callAt[c] - tsAt[d] < 5)
        => /\ path[c] = "hit"
           /\ result[c] = BuildPrices(got[d].data, fetchId[d])

C6_WholeOrNone ==
    price_cache' # price_cache
    => \A m \in DOMAIN price_cache' : \A k \in DOMAIN price_cache :
          price_cache'[m].epoch # price_cache[k].epoch

\* C6: epoch consistency - under concurrent readers and refreshers, the
\* cached mapping and every returned mapping hold prices of one epoch (one
\* successful fetch, or the fallback table), never a mix.
C6_EpochConsistency ==
    /\ [](SingleEpoch(price_cache) /\ \A c \in Callers : SingleEpoch(result[c]))
    /\ [][C6_WholeOrNone]_vars

C6_Witness ==
    \E c, d \in Callers :
        /\ c # d /\ pc[d] = "fetching"
        /\ path[c] = "live" /\ fetchId[c] >= 2
        /\ DOMAIN result[c] = {"gold", "silver"}
        /\ price_cache = result[c]

\* C7 (state): a returned call has returned a mapping by one of the return
\* statements, never an exception; after a failed fetch that is the stale
\* cache or the fallback table.
C7_NoError ==
    \A c \in Callers :
        Done(c) => /\ path[c] \in {"hit", "live", "stale", "fallback"}
                   /\ Failed(c) => path[c] \in {"stale", "fallback"}

\* C7 (step): every failure, the timeout included, takes the same path -
\* the non-empty cache if there is one, else the fallback table, with the
\* cache untouched.
C7_SamePath ==
    \A c \in Callers :
        (pc[c] = "fetching" /\ pc'[c] = "done" /\ Raises(got'[c]))
        => /\ result'[c] = IF price_cache # EmptyDict
                           THEN price_cache ELSE get_fallback_prices
           /\ price_cache' = price_cache
           /\ cache_timestamp' = cache_timestamp

\* C7: quote failures are non-fatal - for every fetch outcome, a timeout
\* included, the call terminates and returns a price mapping (stale cache
\* or fallback) without propagating an error; a timeout is handled as any
\* other failure.
C7_NonFatal ==
    /\ []C7_NoError
    /\ [][C7_SamePath]_vars
    /\ \A c \in Callers : (pc[c] = "fetching") ~> (pc[c] = "done")

C7_Witness ==
    \E c \in Callers :
        /\ Done(c) /\ got[c].why = "timeout"
        /\ path[c] = "stale" /\ result[c] = price_cache
        /\ DOMAIN result[c] = Metals

\* C8: degraded marker - a result served from the fallback table (fetch
\* failed, no prior success) carries a marker besides the four prices, by
\* which the caller can tell it from a live or cached quote.
C8_DegradedMarked ==
    \A c \in Callers :
        (Failed(c) /\ ~priorSuccess[c]) => (DOMAIN result[c]) \ Metals # {}

\* C9: position-level precedence - spread_percent, when set (0 included),
\* is the result; otherwise discount_percent, when set; user defaults and
\* the reference table play no part.
C9_PositionPrecedence ==
    resolved =>
        /\ position.spread_percent # NONE
           => effective_spread = position.spread_percent
        /\ (position.spread_percent = NONE /\ position.discount_percent # NONE)
           => effective_spread = position.discount_percent

C9_Witness ==
    /\ resolved
    /\ position.spread_percent = 0 /\ position.discount_percent = 30
    /\ default_spreads = [bar_large |-> 20]
    /\ position.spread_category = "bar_large"
    /\ effective_spread = 0

\* the category the cascade looks up: the position's, bar_large when unset
C10_Category ==
    IF position.spread_category = NoCategory
    THEN "bar_large" ELSE position.spread_category

\* C10: lower tiers - with neither spread_percent nor discount_percent set,
\* the result is the user default of the category when that key is
\* present, otherwise REFERENCE_SPREADS[metal][category], and 5.0 when the
\* pair is unknown to the table.
C10_LowerTiers ==
    (resolved /\ position.spread_percent = NONE
              /\ position.discount_percent = NONE)
    => effective_spread =
         IF C10_Category \in DOMAIN default_spreads
         THEN default_spreads[C10_Category]
         ELSE IF /\ Lower(position.metal_type) \in DOMAIN REFERENCE_SPREADS
                 /\ C10_Category
                      \in DOMAIN REFERENCE_SPREADS[Lower(position.metal_type)]
         THEN REFERENCE_SPREADS[Lower(position.metal_type)][C10_Category]
         ELSE 50

C10_Witness ==
    /\ resolved
    /\ position.spread_percent = NONE /\ position.discount_percent = NONE
    /\ position.metal_type = "copper" /\ position.spread_category = "jewelry"
    /\ default_spreads = [bar_large |-> 20]
    /\ effective_spread = 50

\* C11: range of the resolver - for every position and user-defaults
\* mapping the request schemas accept, the resolved spread lies in
\* [0, 100] percent.
C11_Range == resolved => (0 <= effective_spread /\ effective_spread <= 1000)

\* the price per gram the valuation read
C13_Price == get_price_per_gram(fetched_prices, valuation.metal_type)

\* C13: valuation formula - the spot value is price per gram times weight;
\* the buy-back value is spot * (1 - spread / 100) when spread > 0 and the
\* spot value otherwise, from both valuation functions; for a spread in
\* [0, 100] the buy-back value lies between 0 and the spot value.
C13_Formula ==
    valuation.done =>
        LET w == valuation.weight_grams
            s == valuation.spread_percent
            spot == Round(C13_Price * w, 10)
            buyback == IF s > 0
                       THEN Round(C13_Price * w * (1000 - s), 10000)
                       ELSE spot
        IN /\ valuation.values.spot_value_eur = spot
           /\ valuation.values.buyback_value_eur = buyback
           /\ valuation.current_value = buyback
           /\ (0 <= s /\ s <= 1000)
              => /\ 0 <= valuation.values.buyback_value_eur
                 /\ valuation.values.buyback_value_eur
                      <= valuation.values.spot_value_eur

\* gold at 100 EUR/g, 10 g, 5 %: 1000.00, 950.00, 50.00
C13_Witness ==
    /\ valuation.done
    /\ C13_Price = 10000
    /\ valuation.weight_grams = 100 /\ valuation.spread_percent = 50
    /\ valuation.values.spot_value_eur = 100000
    /\ valuation.values.buyback_value_eur = 95000
    /\ valuation.values.spread_eur = 5000
    /\ valuation.current_value = 95000

\* C12: ownership of the user spread defaults - a user's settings row is
\* created or changed only by that user's own settings update; no position
\* mutation, summary query or snapshot job touches it.
C12_Ownership ==
    [][\A u \in Users :
          user_settings'[u] # user_settings[u]
          => (response'.op = "update_settings" /\ response'.user_id = u)]_vars

\* the buy-back value of a stored position: its value at the spread the
\* cascade resolves for it from the owner's stored defaults
C14_Buyback(p) ==
    BuybackValueOf(fetched_prices, p, user_settings[p.user_id].default_spreads)

\* C14: profit/loss uses the buy-back value - the per-position record
\* answered by a position request and the portfolio summary report the
\* buy-back value at the resolved spread as current value, and the
\* profit/loss is that value minus the purchase price.
C14_BuybackReported ==
    /\ (response.op \in {"create_position", "update_position"}
           /\ response.status = 200)
       => \A p \in positions :
             p.id = response.body.id
             => /\ response.body.current_value_eur = C14_Buyback(p)
                /\ response.body.profit_loss_eur
                     = C14_Buyback(p) - p.purchase_price_eur
    /\ (response.op = "get_portfolio_summary" /\ response.status = 200)
       => LET ps == PositionsOf(positions, response.user_id)
              buyback == Sum([p \in ps |-> C14_Buyback(p)], ps)
              purchase == Sum([p \in ps |-> p.purchase_price_eur], ps)
          IN /\ response.body.total_current_value_eur = buyback
             /\ response.body.total_profit_loss_eur = buyback - purchase

\* C15: zero-guarded percentages - a profit/loss percentage (of a position,
\* of a metal, of the portfolio, of a history snapshot) is 0 when its
\* purchase value is 0, and no request fails on a zero purchase value.
C15_ZeroGuarded ==
    /\ response.status # 500
    /\ (response.op \in {"create_position", "update_position"}
           /\ response.status = 200 /\ response.body.purchase_price_eur = 0)
       => response.body.profit_loss_percent = 0
    /\ response.op = "get_portfolio_summary"
       => /\ response.body.total_purchase_value_eur = 0
             => response.body.total_profit_loss_percent = 0
          /\ \A m \in DOMAIN response.body.by_metal :
                response.body.by_metal[m].purchase_value_eur = 0
                => response.body.by_metal[m].profit_loss_percent = 0
    /\ response.op = "get_portfolio_history"
       => \A i \in DOMAIN response.body.snapshots :
             response.body.snapshots[i].total_purchase_value_eur = 0
             => response.body.snapshots[i].profit_loss_percent = 0

\* the history of a user whose only position was bought for nothing
C15_Witness ==
    /\ response.op = "get_portfolio_history"
    /\ response.status = 200
    /\ \E i \in DOMAIN response.body.snapshots :
          /\ response.body.snapshots[i].total_purchase_value_eur = 0
          /\ response.body.snapshots[i].total_current_value_eur > 0
          /\ response.body.snapshots[i].profit_loss_percent = 0

\* C16: summary of an owner without positions - positions_count 0, every
\* total 0, an empty per-metal mapping, status 200 and no price read.
C16_EmptySummary ==
    (response.op = "get_portfolio_summary"
        /\ PositionsOf(positions, response.user_id) = {})
    => /\ response.status = 200
       /\ response.body.positions_count = 0
       /\ response.body.total_purchase_value_eur = 0
       /\ response.body.total_current_value_eur = 0
       /\ response.body.total_profit_loss_eur = 0
       /\ response.body.total_profit_loss_percent = 0
       /\ DOMAIN response.body.by_metal = {}
       /\ response.body.price_reads = 0

\* user 2 holds nothing while user 1 holds a position
C16_Witness ==
    /\ response.op = "get_portfolio_summary"
    /\ response.user_id = 2
    /\ PositionsOf(positions, 2) = {}
    /\ PositionsOf(positions, 1) # {}
    /\ response.body.positions_count = 0

\* C17: keys of the per-metal breakdown - for an owner with positions the
\* keys of by_metal are exactly the metals of those positions, and
\* positions_count is the number of positions and the sum of the per-metal
\* counts.
C17_BreakdownKeys ==
    (response.op = "get_portfolio_summary"
        /\ PositionsOf(positions, response.user_id) # {})
    => LET ps == PositionsOf(positions, response.user_id)
           by_metal == response.body.by_metal
       IN /\ DOMAIN by_metal = {p.metal_type : p \in ps}
          /\ response.body.positions_count = Cardinality(ps)
          /\ response.body.positions_count
               = Sum([m \in DOMAIN by_metal |-> by_metal[m].positions_count],
                     DOMAIN by_metal)

\* two metals held, two absent
C17_Witness ==
    /\ response.op = "get_portfolio_summary"
    /\ DOMAIN response.body.by_metal = {"gold", "silver"}
    /\ response.body.positions_count = 2
    /\ Cardinality(PositionsOf(positions, response.user_id)) = 2

\* the snapshots stored for one owner and day
C18_Rows(rows, u, d) == {s \in rows : s.user_id = u /\ s.date = d}

\* at most one snapshot for each owner and day
C18_OnePerKey ==
    \A u \in Users : \A d \in 0..today :
        Cardinality(C18_Rows(snapshots, u, d)) <= 1

\* the totals the writer that just ran for user u has computed
C18_Written(u) ==
    LET ps == PositionsOf(positions', u)
        Spot == [p \in ps |-> SpotValueOf(fetched_prices, p)]
        Buyback == [p \in ps |->
                       BuybackValueOf(fetched_prices, p,
                                      user_settings'[u].default_spreads)]
    IN IF response'.op = "create_snapshot_for_user"
       THEN SnapshotTotals(ps, Buyback)
       ELSE SnapshotTotals(ps, Spot)

\* a snapshot writer has run for the owner of a stored snapshot, on its day
C18_Upserted(s) ==
    /\ ops' # ops
    /\ s.date = today
    /\ response'.user_id = s.user_id
    /\ \/ response'.op \in {"create_snapshot", "create_snapshot_for_user"}
       \/ /\ response'.op \in {"create_position", "update_position",
                               "delete_position"}
          /\ response'.status \in {200, 500}
    /\ PositionsOf(positions', s.user_id) # {}

\* the upsert overwrites the seven numeric columns of the row in place
C18_InPlace ==
    \A s \in snapshots :
        C18_Upserted(s)
        => /\ Cardinality(snapshots') = Cardinality(snapshots)
           /\ \E t \in snapshots' :
                 /\ t.id = s.id /\ t.user_id = s.user_id /\ t.date = s.date
                 /\ LET w == C18_Written(s.user_id)
                    IN /\ t.total_purchase_value_eur
                            = w.total_purchase_value_eur
                       /\ t.total_current_value_eur = w.total_current_value_eur
                       /\ t.total_weight_gold_g = w.total_weight_gold_g
                       /\ t.total_weight_silver_g = w.total_weight_silver_g
                       /\ t.total_weight_platinum_g = w.total_weight_platinum_g
                       /\ t.total_weight_palladium_g
                            = w.total_weight_palladium_g
                       /\ t.positions_count = w.positions_count

\* C18: the upsert is idempotent per key - with the writers running one
\* after the other there is at most one snapshot for each (owner, date),
\* and a write for a key that has a snapshot overwrites its numeric columns
\* in place with the values of that write.
C18_Idempotent == []C18_OnePerKey /\ [][C18_InPlace]_vars

\* a position is created and then doubled on the same day: one row, with
\* the totals of the second write
C18_Witness ==
    /\ today = 0
    /\ response.op = "update_position" /\ response.status = 200
    /\ Cardinality(positions) = 1
    /\ \A p \in positions : p.quantity = 2 /\ p.metal_type = "gold"
    /\ Cardinality(snapshots) = 1
    /\ \A s \in snapshots : s.total_weight_gold_g = 20 /\ s.id = 1

\* C19: the upsert under concurrency - when the writers are through, there
\* is exactly one snapshot for each (owner, date) a writer has written, in
\* every interleaving of their queries and commits.
C19_OneAfterRace ==
    (\A w \in Writers : writer[w].pc = "idle")
    => \A u \in Users :
          Cardinality({s \in snapshots : s.user_id = u /\ s.date = today}) <= 1

\* C20: the snapshot tracks every position mutation - after a create,
\* update or delete of a position (the delete of the owner's last position
\* included) the owner has a snapshot for today whose purchase total,
\* weights and positions count are those of the positions the owner holds
\* after the mutation.
C20_TracksMutation ==
    (response.op \in {"create_position", "update_position", "delete_position"}
        /\ response.status = 200)
    => LET ps == PositionsOf(positions, response.user_id)
           Spot == [p \in ps |-> SpotValueOf(fetched_prices, p)]
           aggregate == SnapshotTotals(ps, Spot)
       IN \E s \in snapshots :
             /\ s.user_id = response.user_id /\ s.date = today
             /\ s.positions_count = aggregate.positions_count
             /\ s.total_purchase_value_eur = aggregate.total_purchase_value_eur
             /\ s.total_weight_gold_g = aggregate.total_weight_gold_g
             /\ s.total_weight_silver_g = aggregate.total_weight_silver_g
             /\ s.total_weight_platinum_g = aggregate.total_weight_platinum_g
             /\ s.total_weight_palladium_g = aggregate.total_weight_palladium_g

\* every snapshot has a registered owner and counts and sums that owner's
\* positions, no others
C21_OwnAggregate ==
    \A s \in snapshots :
        /\ s.user_id \in Users
        /\ LET ps == PositionsOf(positions, s.user_id)
           IN /\ s.positions_count = Cardinality(ps)
              /\ s.total_purchase_value_eur
                    = Sum([p \in ps |-> p.purchase_price_eur], ps)

\* a step leaves the snapshots of other owners and of other days as they
\* are, and adds none for them
C21_Frame ==
    /\ \A s \in snapshots :
          (s.user_id # response'.user_id \/ s.date # today) => s \in snapshots'
    /\ \A s \in snapshots' \ snapshots :
          s.user_id = response'.user_id /\ s.date = today

\* C21: snapshot ownership - every snapshot belongs to one owner and
\* aggregates only that owner's positions; a snapshot write (by a manual
\* snapshot request or a scheduled job) creates no snapshot without an owner
\* and changes no snapshot of another owner or of another date.
C21_SnapshotOwnership == []C21_OwnAggregate /\ [][C21_Frame]_vars

\* the owner's stored snapshots whose date lies in the window of the request
C22_InWindow(u, days) ==
    {s \in snapshots :
        s.user_id = u /\ today - days <= s.date /\ s.date <= today}

\* the answer to this request lists exactly the snapshots of the window,
\* each day once, in ascending order of date
C22_Exact(u, days) ==
    LET h == response'.body.snapshots
        stored == C22_InWindow(u, days)
    IN /\ \A i \in DOMAIN h : \E s \in stored : h[i] = HistoryEntry(s)
       /\ \A s \in stored : \E i \in DOMAIN h : h[i] = HistoryEntry(s)
       /\ {h[i].date : i \in DOMAIN h} = {s.date : s \in stored}
       /\ \A i, j \in DOMAIN h : i < j => h[i].date < h[j].date

\* C22: snapshot history - the history for an owner and a window returns
\* exactly that owner's stored snapshots whose date lies in the window, in
\* ascending order of date, each date at most once, no entry for a day
\* without a stored snapshot and no snapshot of another owner.
C22_History ==
    [][\A u \in Users : \A days \in DaysInputs :
          GetHistory(u, days) => C22_Exact(u, days)]_vars

\* C23: weightGrams is derived - after any sequence of position creates and
\* updates (any subset of quantity, weight_per_unit and weight_unit changed
\* by an update), every stored position has weight_grams = quantity x
\* convert_to_grams(weight_per_unit, weight_unit) for the quantity, weight
\* per unit and unit it stores now.
C23_WeightDerived ==
    \A p \in positions :
        p.weight_grams
            = p.quantity * convert_to_grams(p.weight_per_unit, p.weight_unit)

\* a position created as 1 x 1.0 oz has had its unit and its quantity
\* changed: 3 x 1.0 g
C23_Witness ==
    /\ response.op = "update_position" /\ response.status = 200
    /\ response.body.weight_grams = 30
    /\ \E p \in positions :
          /\ p.id = response.body.id /\ p.metal_type = "silver"
          /\ p.quantity = 3 /\ p.weight_per_unit = 10 /\ p.weight_unit = "g"
          /\ p.weight_grams = 30

\* the snapshots of one owner and day among rows
C24_Rows(rows, s) == {t \in rows : t.user_id = s.user_id /\ t.date = s.date}

\* C24: HistoryBackfiller is non-destructive - a snapshot that exists for
\* (owner, d) before a backfill run is unchanged after the run and gets no
\* second snapshot next to it; backfill writes only days that had none.
C24_NonDestructive ==
    backfill.pc = "done"
    => /\ \A s \in backfill.before :
             /\ s \in snapshots
             /\ C24_Rows(snapshots, s) = C24_Rows(backfill.before, s)
       /\ \A t \in snapshots \ backfill.before :
             C24_Rows(backfill.before, t) = {}

\* a run has walked over a day that had a snapshot (three days ago) and has
\* written the day after it
C24_Witness ==
    /\ backfill.pc = "done"
    /\ \E s \in backfill.before : s.user_id = 1 /\ s.date = 397
    /\ \E t \in snapshots \ backfill.before : t.user_id = 1 /\ t.date = 398

\* the position a backfill run is for
C25_Position == CHOOSE p \in positions : p.id = backfill.position_id

\* C25: HistoryBackfiller range - a run for a position writes snapshots only
\* for days d with max(purchaseDate, today - 365) <= d < today: never today,
\* never a day before the purchase, never a day more than 365 days back.
C25_Range ==
    backfill.pc \in {"walking", "done"}
    => \A t \in (snapshots \ backfill.before) \cup backfill.written :
          /\ t.date < today
          /\ t.date >= C25_Position.purchase_date
          /\ t.date >= today - 365

\* the run for a position bought 400 days ago is through: its first day is
\* 365 days back
C25_Witness ==
    /\ backfill.pc = "done"
    /\ C25_Position.purchase_date = today - 400
    /\ \E t \in snapshots \ backfill.before : t.date = today - 365
    /\ \E t \in snapshots \ backfill.before : t.date = today - 2

\* C26: HistoryBackfiller is all-or-nothing - while a run walks, and after
\* it has failed at any day, the stored snapshots are those from before the
\* run, and the failure is surfaced as an error; no state holds a partly
\* backfilled history.
C26_AllOrNothing ==
    /\ backfill.pc \in {"walking", "failed"} => snapshots = backfill.before
    /\ backfill.pc = "failed"
       => response.op = "backfill" /\ response.status = 500

\* a run has failed at its fourth day, after it had written days
C26_Witness ==
    /\ backfill.pc = "failed"
    /\ backfill.d = C25_Position.purchase_date + 3
    /\ ~\E s \in snapshots : s.date = C25_Position.purchase_date
    /\ snapshots # {}

\* what the returned spread_eur is off from spot_value_eur minus
\* buyback_value_eur, in cents
C27_Off ==
    valuation.values.spread_eur
        - (valuation.values.spot_value_eur
               - valuation.values.buyback_value_eur)

\* C27: spread amount identity on the returned record - for every price,
\* weight and spread percent the three rounded outputs satisfy spread_eur =
\* spot_value_eur - buyback_value_eur exactly, to the cent.
C27_Identity == valuation.done => C27_Off = 0

\* C27 as amended: each output is the exact amount rounded by itself, so
\* the returned spread_eur is within one cent of spot_value_eur minus
\* buyback_value_eur.
C27_WithinCent == valuation.done => C27_Off \in {-1, 0, 1}

\* 3.3 g of silver at 1.96 EUR/g with a spread of 5 %: 6.47, 6.14 and 0.32
C27_Witness ==
    /\ valuation.done
    /\ valuation.spread_percent = 50
    /\ valuation.values.spot_value_eur = 647
    /\ valuation.values.buyback_value_eur = 614
    /\ valuation.values.spread_eur = 32

\* C28: snapshot writers agree - with the owner's positions, the user's
\* defaults and the cached prices the same, the snapshot a manual snapshot
\* request writes for (owner, today) and the one a scheduled job writes
\* carry the same total_current_value_eur: a writer that overwrites today's
\* snapshot leaves that value as the writer before it stored it.
C28_WritersAgree ==
    [][\A s \in snapshots : \A t \in snapshots' :
          (s.id = t.id /\ s.user_id \in Users)
          => t.total_current_value_eur = s.total_current_value_eur]_vars

\* the request is answered 'not found' and no table has changed
C29_NotFound ==
    /\ response'.status = 404
    /\ positions' = positions
    /\ snapshots' = snapshots

\* a get, update or delete of another user's position
C29_Foreign ==
    \A u \in Users : \A p \in positions :
        p.user_id # u
        => /\ get_position(u, p.id) => C29_NotFound
           /\ \A body \in UpdateBodies :
                 update_position(u, p.id, body) => C29_NotFound
           /\ delete_position(u, p.id) => C29_NotFound

\* the list and the summary are made of the requesting user's positions
C29_OwnOnly ==
    \A u \in Users :
        LET own == PositionsOf(positions, u)
        IN /\ \A m \in {"", "gold"} :
                 get_positions(u, m)
                 => {e.id : e \in response'.body.positions}
                        = {p.id : p \in {q \in own :
                                            m # "" => q.metal_type = m}}
           /\ GetSummary(u)
              => /\ response'.body.positions_count = Cardinality(own)
                 /\ response'.body.total_purchase_value_eur
                       = Sum([p \in own |-> p.purchase_price_eur], own)

\* C29: position owner isolation - a get, update or delete request for a
\* position id that belongs to another user answers 'not found' and leaves
\* that position and every snapshot unchanged; list and summary requests
\* read only the requesting user's positions.
C29_OwnerIsolation == [][C29_Foreign /\ C29_OwnOnly]_vars

\* user 2 has asked for a position of user 1, who holds all positions there
\* are, and got 'not found'
C29_Witness ==
    /\ response.op = "get_position"
    /\ response.user_id = 2
    /\ response.status = 404
    /\ positions # {}
    /\ \A p \in positions : p.user_id = 1

\* no user holds more positions than the limit of the free tier
C30_Limit ==
    \A u \in Users : Cardinality(PositionsOf(positions, u)) <= 10

\* a create request of a user at the limit is answered 403 and changes
\* neither positions nor snapshots
C30_Rejected ==
    \A c \in Callers : \A u \in Users : \A body \in CreateBodies :
        (Cardinality(PositionsOf(positions, u)) >= 10
            /\ CreateInsert(c, u, body))
        => /\ response'.status = 403
           /\ positions' = positions
           /\ snapshots' = snapshots

\* C30: tier position limit - after any sequence and any interleaving of
\* create-position requests a user holds no more positions than the limit
\* of the tier (10 for free, also for an unknown tier); a create request at
\* the limit is rejected with 403 and leaves positions and snapshots
\* unchanged.
C30_TierLimit == []C30_Limit /\ [][C30_Rejected]_vars

====
